---------------------------- MODULE Spec2Model ----------------------------
(***************************************************************************)
(* Model of src/load_data.py: load_bookings and                            *)
(* compute_monthly_occupancy_revpar (daily occupancy / revenue calendar    *)
(* and its monthly rollup).                                                *)
(*                                                                         *)
(* Representation                                                          *)
(*   - a date of the database is a day number, day 0 = 2024-01-01;         *)
(*   - a pandas Timestamp is a number of ticks, TicksPerDay ticks a day,   *)
(*     so that midnight values and normalize() are distinguishable;        *)
(*   - a float is an exact rational [num, den] in lowest terms, with       *)
(*     den = 0 for the IEEE specials (NaN = 0/0, inf = 1/0, -inf = -1/0).  *)
(*     Rounding of binary floating point is not modelled: equalities of    *)
(*     amounts below are equalities of the exact values;                   *)
(*   - a DataFrame is a sequence of records, one record per row.           *)
(***************************************************************************)
EXTENDS Integers, Sequences, FiniteSets, TLC

(***************************************************************************)
(* Bounds of the model                                                     *)
(***************************************************************************)
MaxBookings == 2    \* rows of the database view
MaxSpan     == 3    \* nights of the longest booking of the view
TicksPerDay == 2    \* resolution of a Timestamp below one day

(***************************************************************************)
(* Calendar arithmetic (Gregorian, from 2024-01-01)                        *)
(***************************************************************************)
IsLeap(y) == (y % 4 = 0 /\ y % 100 # 0) \/ y % 400 = 0

DaysInMonth(y, m) ==
    IF m = 2 THEN (IF IsLeap(y) THEN 29 ELSE 28)
    ELSE IF m \in {4, 6, 9, 11} THEN 30 ELSE 31

RECURSIVE DaysBeforeMonth(_, _)
\* days from 2024-01-01 to the first of month m of year y (y >= 2024)
DaysBeforeMonth(y, m) ==
    IF y = 2024 /\ m = 1 THEN 0
    ELSE IF m = 1 THEN DaysBeforeMonth(y - 1, 12) + DaysInMonth(y - 1, 12)
    ELSE DaysBeforeMonth(y, m - 1) + DaysInMonth(y, m - 1)

\* the day number of the date y-m-d
Date(y, m, d) == DaysBeforeMonth(y, m) + (d - 1)

RECURSIVE MonthFrom(_, _, _)
\* the << year, month >> that holds day (>= 0), searching from y-m
MonthFrom(day, y, m) ==
    IF day < DaysBeforeMonth(y, m) + DaysInMonth(y, m)
    THEN << y, m >>
    ELSE IF m = 12 THEN MonthFrom(day, y + 1, 1)
    ELSE MonthFrom(day, y, m + 1)

YearMonth(day) == MonthFrom(day, 2024, 1)

\* the day number of the first of the month that holds day
MonthStart(day) == DaysBeforeMonth(YearMonth(day)[1], YearMonth(day)[2])

(***************************************************************************)
(* Timestamps                                                              *)
(***************************************************************************)
\* pd.Timedelta(days=1)
Timedelta1Day == TicksPerDay

\* pd.to_datetime of a date: midnight of that day
to_datetime(day) == day * TicksPerDay

\* Timestamp.normalize(): the time of day is dropped
normalize(ts) == ts - (ts % TicksPerDay)

\* the date of a Timestamp
DayOf(ts) == ts \div TicksPerDay

\* values.astype("datetime64[M]"): the first of the Timestamp's month
astype_month(ts) == to_datetime(MonthStart(DayOf(ts)))

RECURSIVE date_range(_, _)
\* pd.date_range(a, b, freq="D"): a, a + 1 day, ... while <= b; empty when b < a
date_range(a, b) ==
    IF a > b THEN << >> ELSE << a >> \o date_range(a + Timedelta1Day, b)

(***************************************************************************)
(* Floats as exact rationals                                               *)
(***************************************************************************)
Abs(x) == IF x < 0 THEN -x ELSE x

RECURSIVE GCD(_, _)
GCD(a, b) == IF b = 0 THEN a ELSE GCD(b, a % b)

Sign(x) == IF x > 0 THEN 1 ELSE IF x < 0 THEN -1 ELSE 0

\* the float n/d; d = 0 gives a special (numpy: x/0 = +-inf, 0/0 = NaN)
Rat(n, d) ==
    IF d = 0 THEN [num |-> Sign(n), den |-> 0]
    ELSE LET g == GCD(Abs(n), Abs(d))
         IN  [num |-> Sign(d) * (n \div g), den |-> Abs(d) \div g]

NaN == [num |-> 0, den |-> 0]
Zero == Rat(0, 1)
IsFinite(x) == x.den # 0
IsNaN(x) == x = NaN

RAdd(a, b) ==
    IF IsFinite(a) /\ IsFinite(b) THEN Rat(a.num * b.den + b.num * a.den, a.den * b.den)
    ELSE IF IsNaN(a) \/ IsNaN(b) THEN NaN
    ELSE IF ~IsFinite(a) /\ ~IsFinite(b) /\ a # b THEN NaN
    ELSE IF ~IsFinite(a) THEN a ELSE b

RNeg(a) == [num |-> -a.num, den |-> a.den]
RSub(a, b) == RAdd(a, RNeg(b))

RMul(a, b) ==
    IF IsFinite(a) /\ IsFinite(b) THEN Rat(a.num * b.num, a.den * b.den)
    ELSE IF IsNaN(a) \/ IsNaN(b) \/ a.num = 0 \/ b.num = 0 THEN NaN
    ELSE [num |-> Sign(a.num) * Sign(b.num), den |-> 0]

\* a / b elementwise on Series: no exception, specials on a zero divisor
RDiv(a, b) ==
    IF IsFinite(a) /\ IsFinite(b) THEN Rat(a.num * b.den, a.den * b.num)
    ELSE IF IsFinite(a) /\ ~IsNaN(b) THEN Zero
    ELSE IF IsFinite(b) /\ ~IsNaN(a) THEN (IF b.num < 0 THEN RNeg(a) ELSE a)
    ELSE NaN

\* a <= b on finite values
RLeq(a, b) == IsFinite(a) /\ IsFinite(b) /\ a.num * b.den <= b.num * a.den

\* Series.fillna(v)
fillna(x, v) == IF IsNaN(x) THEN v ELSE x


(***************************************************************************)
(* Sequence helpers                                                        *)
(***************************************************************************)
Range(s) == { s[k] : k \in 1..Len(s) }

\* all orderings of the rows of s
Orderings(s) ==
    LET n == Len(s)
        Bij == { f \in [1..n -> 1..n] : \A a, b \in 1..n : f[a] = f[b] => a = b }
    IN  { [k \in 1..n |-> s[f[k]]] : f \in Bij }

Min(S) == CHOOSE x \in S : \A y \in S : x <= y
Max(S) == CHOOSE x \in S : \A y \in S : x >= y

RECURSIVE SortedSeq(_)
\* the elements of a finite set of numbers, ascending
SortedSeq(S) == IF S = {} THEN << >> ELSE << Min(S) >> \o SortedSeq(S \ {Min(S)})

RECURSIVE SumSeq(_)
\* Series.sum(): the cells added in row order, 0 for no rows
SumSeq(s) == IF s = << >> THEN Zero ELSE RAdd(SumSeq(SubSeq(s, 1, Len(s) - 1)), s[Len(s)])

(***************************************************************************)
(* Configuration and database                                              *)
(***************************************************************************)
NULL == 0 - 1

\* values of the environment variables FILTER_START and FILTER_END_EXCL
\* (src/load_data.py:51-52): << start, exclusive end >>
Filters ==
    { << Date(2024, 1, 1), Date(2024, 2, 1) >>,
      << Date(2024, 1, 1), Date(2024, 4, 1) >>,
      << Date(2024, 1, 31), Date(2024, 4, 1) >> }

Arrivals == { Date(2024, 1, 30), Date(2024, 3, 1) }

\* a booking of s nights from the date a: price 300, commission 30
Booking(a, s) ==
    [prichod |-> a, odchod |-> a + s, pocet_noci |-> s, cena |-> 300, provizia |-> 30]

\* rows of the view abies_bookings_all: the bookings of one night and of
\* MaxSpan nights from each arrival, and rows that differ from a one-night
\* booking in one column:
\* a null date, a departure on the arrival day, a night count of 0, a null
\* commission, a night count that is not the number of nights
ViewRows ==
    { Booking(a, s) : a \in Arrivals, s \in {1, MaxSpan} }
    \cup LET b == Booking(Date(2024, 1, 30), 1)
         IN  { [b EXCEPT !.prichod = NULL],
               [b EXCEPT !.odchod = NULL],
               [b EXCEPT !.odchod = b.prichod],
               [b EXCEPT !.pocet_noci = 0],
               [b EXCEPT !.provizia = NULL],
               [b EXCEPT !.pocet_noci = 2] }

Views == UNION { [1..n -> ViewRows] : n \in 0..MaxBookings }

VARIABLES
    FILTER_START,     \* module global, a date
    FILTER_END_EXCL,  \* module global, a date
    db,               \* the rows of the view, in storage order
    pc,               \* position of the program
    df_b,             \* the bookings DataFrame
    start_date, end_date, calendar, rows, daily_agg, daily_full, monthly,
                      \* locals of compute_monthly_occupancy_revpar
    result,           \* the DataFrame returned by the last call
    prev,             \* the DataFrame returned by the call before
    call              \* the call under way: "none" before any, "first", or a
                      \* further call on the rows in the "same" order as the
                      \* call before or "reordered"

vars == << FILTER_START, FILTER_END_EXCL, db, pc, df_b, start_date, end_date,
           calendar, rows, daily_agg, daily_full, monthly, result, prev, call >>

locals == << start_date, end_date, calendar, rows, daily_agg, daily_full, monthly >>
config == << FILTER_START, FILTER_END_EXCL, db >>

Init ==
    /\ \E f \in Filters : FILTER_START = f[1] /\ FILTER_END_EXCL = f[2]
    /\ db \in Views
    /\ pc = "main"
    /\ df_b = << >>
    /\ start_date = 0 /\ end_date = 0
    /\ calendar = << >> /\ rows = << >>
    /\ daily_agg = << >> /\ daily_full = << >> /\ monthly = << >>
    /\ result = << >> /\ prev = << >>
    /\ call = "none"

(***************************************************************************)
(* load_bookings                                                           *)
(***************************************************************************)
\* the WHERE clause of the query
where_clause(r) ==
    /\ r.prichod # NULL
    /\ r.odchod # NULL
    /\ r.odchod > r.prichod
    /\ r.pocet_noci > 0

\* the select list: coalesce(provizia, 0)
select_row(r) ==
    [r EXCEPT !.provizia = IF r.provizia = NULL THEN 0 ELSE r.provizia]

\* ORDER BY prichod: any order of the rows that ascends in prichod
order_by_prichod(s) ==
    { p \in Orderings(s) : \A a, b \in 1..Len(p) : a < b => p[a].prichod <= p[b].prichod }

\* the rows the query can return for the view v
query_bookings(v) ==
    LET kept == SelectSeq(v, where_clause)
    IN  order_by_prichod([k \in 1..Len(kept) |-> select_row(kept[k])])

\* pd.to_datetime on the two date columns
to_datetime_cols(s) ==
    [k \in 1..Len(s) |-> [s[k] EXCEPT !.prichod = to_datetime(@), !.odchod = to_datetime(@)]]

\* arrival_filter without the upper bound
arrival_filter_no_upper(s, lo, hi) ==
    LET keep(r) == r.prichod >= to_datetime(lo)
    IN  SelectSeq(s, keep)

\* the filter on the arrival
arrival_filter(s, lo, hi) ==
    LET keep(r) == r.prichod >= to_datetime(lo) /\ r.prichod < to_datetime(hi)
    IN  SelectSeq(s, keep)

\* main(): df_b = load_bookings(engine)
LoadBookings ==
    /\ pc = "main"
    /\ \E q \in query_bookings(db) :
         df_b' = arrival_filter(to_datetime_cols(q), FILTER_START, FILTER_END_EXCL)
    /\ pc' = "compute"
    /\ call' = "first"
    /\ UNCHANGED << config, locals, result, prev >>


\* a call of compute_monthly_occupancy_revpar by another caller than main():
\* a DataFrame of the bookings of the view (departure after arrival, nights
\* > 0) in the order of the view, not filtered on the arrival
CallCompute ==
    /\ pc = "main"
    /\ LET kept == SelectSeq(db, where_clause)
       IN  df_b' = to_datetime_cols([k \in 1..Len(kept) |-> select_row(kept[k])])
    /\ pc' = "compute"
    /\ call' = "first"
    /\ UNCHANGED << config, locals, result, prev >>

(***************************************************************************)
(* compute_monthly_occupancy_revpar                                        *)
(***************************************************************************)
Column(df, c) == [k \in 1..Len(df) |-> df[k][c]]

\* df_b.empty taken as never true
is_empty_never(df) == FALSE

\* df_b.empty
is_empty(df) == df = << >>

\* window_start from the first row in place of the minimum
window_start_first(df) == normalize(df[1].prichod)

\* df_b["prichod"].min().normalize()
window_start(df) == normalize(Min(Range(Column(df, "prichod"))))

\* window_end without the limit of the cutoff
window_end_unclamped(df, cutoff) ==
    normalize(Max(Range(Column(df, "odchod"))) - Timedelta1Day)

\* min((df_b["odchod"].max() - 1 day).normalize(), to_datetime(FILTER_END_EXCL) - 1 day)
window_end(df, cutoff) ==
    LET end_limit == to_datetime(cutoff) - Timedelta1Day
        last_night == normalize(Max(Range(Column(df, "odchod"))) - Timedelta1Day)
    IN  IF last_night <= end_limit THEN last_night ELSE end_limit

\* make_calendar with the end taken as exclusive
make_calendar_exclusive(s, e) ==
    LET days == date_range(s, e - Timedelta1Day)
    IN  [k \in 1..Len(days) |-> [date |-> days[k], month |-> astype_month(days[k])]]

\* the calendar DataFrame: one row per day of [s, e], with its month
make_calendar(s, e) ==
    LET days == date_range(s, e)
    IN  [k \in 1..Len(days) |-> [date |-> days[k], month |-> astype_month(days[k])]]

\* beyond_end with no night ever skipped
beyond_end_never(d, e) == FALSE

\* the test of the inner loop: the night is skipped
beyond_end(d, e) == d > e

\* the tuples the loop appends for the booking r
booking_rows(r, e) ==
    LET nights == date_range(r.prichod, r.odchod - Timedelta1Day)
        daily_rev == Rat(r.cena, r.pocet_noci)
        daily_comm == Rat(r.provizia, r.pocet_noci)
        all == [k \in 1..Len(nights) |->
                  [date |-> normalize(nights[k]), daily_rev |-> daily_rev, daily_comm |-> daily_comm]]
        kept(t) == ~beyond_end(t.date, e)
    IN  SelectSeq(all, kept)

\* groupby_date with agg "first" in place of "sum"
groupby_date_first(daily) ==
    LET keys == SortedSeq(Range(Column(daily, "date")))
        group(d) == LET is(t) == t.date = d IN SelectSeq(daily, is)
    IN  [k \in 1..Len(keys) |->
           [date |-> keys[k],
            revenue_gross |-> group(keys[k])[1].daily_rev,
            commission |-> group(keys[k])[1].daily_comm,
            occupied_flag |-> IF Len(group(keys[k])) > 0 THEN 1 ELSE 0]]

\* groupby_date with the count of bookings kept as the flag
groupby_date_count(daily) ==
    LET keys == SortedSeq(Range(Column(daily, "date")))
        group(d) == LET is(t) == t.date = d IN SelectSeq(daily, is)
    IN  [k \in 1..Len(keys) |->
           [date |-> keys[k],
            revenue_gross |-> SumSeq(Column(group(keys[k]), "daily_rev")),
            commission |-> SumSeq(Column(group(keys[k]), "daily_comm")),
            occupied_flag |-> Len(group(keys[k]))]]

RECURSIVE expand_rows(_, _)
\* the list rows after the loop over the bookings df, in row order
expand_rows(df, e) ==
    IF df = << >> THEN << >>
    ELSE expand_rows(SubSeq(df, 1, Len(df) - 1), e) \o booking_rows(df[Len(df)], e)

\* daily.groupby("date", as_index=False).agg(sum, sum, size), then the
\* occupied_flag column in place of occ_cnt: one row per date, ascending
groupby_date(daily) ==
    LET keys == SortedSeq(Range(Column(daily, "date")))
        group(d) == LET is(t) == t.date = d IN SelectSeq(daily, is)
        occ_cnt(d) == Len(group(d))
    IN  [k \in 1..Len(keys) |->
           [date |-> keys[k],
            revenue_gross |-> SumSeq(Column(group(keys[k]), "daily_rev")),
            commission |-> SumSeq(Column(group(keys[k]), "daily_comm")),
            occupied_flag |-> IF occ_cnt(keys[k]) > 0 THEN 1 ELSE 0]]

RECURSIVE merge_inner(_, _)
\* the merge with how="inner": left rows without a match are dropped
merge_inner(left, right) ==
    IF left = << >> THEN << >>
    ELSE LET l == Head(left)
             is(t) == t.date = l.date
             m == SelectSeq(right, is)
         IN  [k \in 1..Len(m) |->
                [date |-> l.date, month |-> l.month,
                 revenue_gross |-> m[k].revenue_gross,
                 commission |-> m[k].commission,
                 occupied_flag |-> Rat(m[k].occupied_flag, 1)]]
             \o merge_inner(Tail(left), right)

RECURSIVE merge_left(_, _)
\* left.merge(right, on="date", how="left"): per left row, in order, one row
\* per right row of the same date, or one row of NaN when there is none
merge_left(left, right) ==
    IF left = << >> THEN << >>
    ELSE LET l == Head(left)
             is(t) == t.date = l.date
             m == SelectSeq(right, is)
             joined == IF m = << >>
                       THEN << [date |-> l.date, month |-> l.month, revenue_gross |-> NaN,
                                commission |-> NaN, occupied_flag |-> NaN] >>
                       ELSE [k \in 1..Len(m) |->
                               [date |-> l.date, month |-> l.month,
                                revenue_gross |-> m[k].revenue_gross,
                                commission |-> m[k].commission,
                                occupied_flag |-> Rat(m[k].occupied_flag, 1)]]
         IN  joined \o merge_left(Tail(left), right)

\* the three fillna(0) after the merge
fill_daily(df) ==
    [k \in 1..Len(df) |->
       [df[k] EXCEPT !.revenue_gross = fillna(@, Zero),
                     !.commission = fillna(@, Zero),
                     !.occupied_flag = fillna(@, Zero)]]

\* the count taken over the occupied rows of the group only
count_occupied(g) == LET occ(t) == t.occupied_flag # Zero IN Len(SelectSeq(g, occ))

\* ("date", "count"): the rows of the group whose date is not null
count_dates(g) == Len(g)

\* daily_full.groupby("month", as_index=False).agg(count, sum, sum, sum)
groupby_month(df) ==
    LET keys == SortedSeq(Range(Column(df, "month")))
        group(mo) == LET is(t) == t.month = mo IN SelectSeq(df, is)
    IN  [k \in 1..Len(keys) |->
           [month |-> keys[k],
            available_nights |-> count_dates(group(keys[k])),
            occupied_nights |-> SumSeq(Column(group(keys[k]), "occupied_flag")),
            revenue_gross |-> SumSeq(Column(group(keys[k]), "revenue_gross")),
            commission |-> SumSeq(Column(group(keys[k]), "commission"))]]

\* derive_row with the commission not subtracted
derive_row_gross(m) ==
    LET avail == Rat(m.available_nights, 1)
    IN  [month |-> m.month,
         available_nights |-> m.available_nights,
         occupied_nights |-> m.occupied_nights,
         revenue_gross |-> m.revenue_gross,
         commission |-> m.commission,
         revenue_net |-> m.revenue_gross,
         occupancy_pct |-> RDiv(RMul(Rat(100, 1), m.occupied_nights), avail),
         revpar_gross |-> RDiv(m.revenue_gross, avail),
         revpar_net |-> RDiv(m.revenue_gross, avail),
         year |-> YearMonth(DayOf(m.month))[1],
         month_num |-> YearMonth(DayOf(m.month))[2]]

\* the derived columns of a month row
derive_row(m) ==
    LET net == RSub(m.revenue_gross, m.commission)
        avail == Rat(m.available_nights, 1)
    IN  [month |-> m.month,
         available_nights |-> m.available_nights,
         occupied_nights |-> m.occupied_nights,
         revenue_gross |-> m.revenue_gross,
         commission |-> m.commission,
         revenue_net |-> net,
         occupancy_pct |-> RDiv(RMul(Rat(100, 1), m.occupied_nights), avail),
         revpar_gross |-> RDiv(m.revenue_gross, avail),
         revpar_net |-> RDiv(net, avail),
         year |-> YearMonth(DayOf(m.month))[1],
         month_num |-> YearMonth(DayOf(m.month))[2]]

RECURSIVE sort_values_month(_)
\* monthly.sort_values("month"): ascending in month, ties in row order
sort_values_month(df) ==
    IF df = << >> THEN << >>
    ELSE LET lo == Min(Range(Column(df, "month")))
             first == CHOOSE k \in 1..Len(df) :
                        df[k].month = lo /\ \A j \in 1..(k - 1) : df[j].month # lo
             rest == [k \in 1..(Len(df) - 1) |-> IF k < first THEN df[k] ELSE df[k + 1]]
         IN  << df[first] >> \o sort_values_month(rest)

\* if df_b.empty: raise SystemExit
CheckEmpty ==
    /\ pc = "compute"
    /\ pc' = IF is_empty(df_b) THEN "SystemExit" ELSE "window"
    /\ UNCHANGED << config, df_b, locals, result, prev, call >>

\* from start_date to daily_full: the window, the calendar, the loop over the
\* bookings (float / int raises ZeroDivisionError on pocet_noci = 0), the
\* aggregate per date, the merge and the fillna.
\* When calendar and daily_agg are both empty the date column of daily_agg has
\* dtype object and that of calendar datetime64: the merge either returns no
\* row or raises ValueError, by the pandas version's dtype check.
BuildDaily ==
    LET s == window_start(df_b)
        e == window_end(df_b, FILTER_END_EXCL)
        cal == make_calendar(s, e)
        tuples == expand_rows(df_b, e)
        agg == groupby_date(tuples)
    IN  /\ pc = "window"
        /\ start_date' = s
        /\ end_date' = e
        /\ calendar' = cal
        /\ IF \E k \in 1..Len(df_b) : df_b[k].pocet_noci = 0
           THEN /\ pc' = "ZeroDivisionError"
                /\ UNCHANGED << rows, daily_agg, daily_full >>
           ELSE /\ rows' = tuples
                /\ daily_agg' = agg
                /\ \/ /\ daily_full' = fill_daily(merge_left(cal, agg))
                      /\ pc' = "monthly"
                   \/ /\ cal = << >> /\ agg = << >>
                      /\ pc' = "ValueError"
                      /\ UNCHANGED daily_full
        /\ UNCHANGED << config, df_b, monthly, result, prev, call >>

\* monthly = daily_full.groupby("month", as_index=False).agg(...), the derived
\* columns, and return monthly.sort_values("month")
MonthlyRollup ==
    /\ pc = "monthly"
    /\ LET g == groupby_month(daily_full)
           m == [k \in 1..Len(g) |-> derive_row(g[k])]
       IN  /\ monthly' = m
           /\ result' = sort_values_month(m)
    /\ pc' = "returned"
    /\ UNCHANGED << config, df_b, start_date, end_date, calendar, rows, daily_agg,
                    daily_full, prev, call >>

\* a further call on the same bookings, listed in any order
CallAgain ==
    /\ pc = "returned"
    /\ df_b' \in Orderings(df_b)
    /\ call' = IF df_b' = df_b THEN "same" ELSE "reordered"
    /\ prev' = result
    /\ result' = << >>
    /\ start_date' = 0 /\ end_date' = 0
    /\ calendar' = << >> /\ rows' = << >>
    /\ daily_agg' = << >> /\ daily_full' = << >> /\ monthly' = << >>
    /\ pc' = "compute"
    /\ UNCHANGED config

Next ==
    \/ LoadBookings
    \/ CallCompute
    \/ CheckEmpty
    \/ BuildDaily
    \/ MonthlyRollup
    \/ CallAgain

Spec == Init /\ [][Next]_vars


(***************************************************************************)
(* Vocabulary of the properties, from the bookings and the cutoff alone    *)
(***************************************************************************)
\* the dates (midnights) of a range of Timestamps
DatesIn(a, b) == { t \in a..b : t % TicksPerDay = 0 }

\* the occupied nights of a booking: the dates of [arrival, departure)
Nights(r) == DatesIn(r.prichod, r.odchod - 1)

WindowEndExclusive == to_datetime(FILTER_END_EXCL)

\* start = min(arrival)
ClaimStart == Min({ df_b[k].prichod : k \in 1..Len(df_b) })

\* end = min(max(departure) - 1 day, window_end_exclusive - 1 day)
ClaimEnd ==
    LET a == Max({ df_b[k].odchod : k \in 1..Len(df_b) }) - Timedelta1Day
        b == WindowEndExclusive - Timedelta1Day
    IN  IF a <= b THEN a ELSE b

\* the dates of [start, end]
ClaimWindow == DatesIn(ClaimStart, ClaimEnd)

\* the bookings that occupy the date d
Covering(d) == { k \in 1..Len(df_b) : d \in Nights(df_b[k]) }

\* the daily table exists
AfterMerge == pc \in {"monthly", "returned"}

\* the rows of the daily table for the date d
DailyRowsOf(d) == { k \in 1..Len(daily_full) : daily_full[k].date = d }

(***************************************************************************)
(* C1: for every non-empty booking set and every cutoff, the daily table   *)
(* holds exactly one record for each date of [start, end] and no record    *)
(* for any other date.                                                     *)
(***************************************************************************)
C1_DailyCoverage ==
    (df_b # << >> /\ AfterMerge) =>
        /\ \A d \in ClaimWindow : Cardinality(DailyRowsOf(d)) = 1
        /\ \A k \in 1..Len(daily_full) : daily_full[k].date \in ClaimWindow

\* a returned run whose window holds a date that no booking occupies
C1_Witness ==
    /\ pc = "returned"
    /\ \E d \in ClaimWindow : Covering(d) = {} /\ DailyRowsOf(d) # {}

(***************************************************************************)
(* C2: conservation. The gross revenue of all daily records equals the sum *)
(* over the bookings of price * (nights of the booking that are <= end) /  *)
(* (nights of the booking); the same for the commission.                   *)
(***************************************************************************)
ClampedShare(r, amount) ==
    Rat(amount * Cardinality({ d \in Nights(r) : d <= ClaimEnd }), Cardinality(Nights(r)))

C2_Conservation ==
    (df_b # << >> /\ AfterMerge) =>
        /\ SumSeq(Column(daily_full, "revenue_gross"))
             = SumSeq([k \in 1..Len(df_b) |-> ClampedShare(df_b[k], df_b[k].cena)])
        /\ SumSeq(Column(daily_full, "commission"))
             = SumSeq([k \in 1..Len(df_b) |-> ClampedShare(df_b[k], df_b[k].provizia)])

\* the same, for bookings whose pocet_noci is their number of nights
C2_ConservationConsistentNights ==
    (\A k \in 1..Len(df_b) : df_b[k].pocet_noci = Cardinality(Nights(df_b[k])))
        => C2_Conservation

(***************************************************************************)
(* C3: every month row has 0 <= occupied_nights <= available_nights and    *)
(* 0 <= occupancy_pct <= 100, also when bookings overlap.                  *)
(***************************************************************************)
C3_OccupancyBounds ==
    pc = "returned" =>
        \A k \in 1..Len(result) :
            /\ RLeq(Zero, result[k].occupied_nights)
            /\ RLeq(result[k].occupied_nights, Rat(result[k].available_nights, 1))
            /\ RLeq(Zero, result[k].occupancy_pct)
            /\ RLeq(result[k].occupancy_pct, Rat(100, 1))

\* a returned month in which two bookings occupy the same date
C3_Witness ==
    /\ pc = "returned"
    /\ \E k \in 1..Len(result) : \E d \in ClaimWindow :
          /\ astype_month(d) = result[k].month
          /\ Cardinality(Covering(d)) >= 2
          /\ result[k].occupied_nights = Rat(result[k].available_nights, 1)


(***************************************************************************)
(* C4: called with no booking, the function raises SystemExit before it    *)
(* derives a window, and no daily or monthly record exists.                *)
(***************************************************************************)
C4_EmptyInput ==
    /\ (df_b = << >> /\ pc \notin {"main", "compute"}) => pc = "SystemExit"
    /\ pc = "SystemExit" =>
          /\ df_b = << >>
          /\ start_date = 0 /\ end_date = 0
          /\ calendar = << >> /\ rows = << >> /\ daily_agg = << >>
          /\ daily_full = << >> /\ monthly = << >> /\ result = << >>

\* the function has exited on an empty DataFrame loaded from a view with rows
C4_Witness == pc = "SystemExit" /\ call = "first" /\ db # << >>

(***************************************************************************)
(* C5: cutoff clamping. No allocation, daily record or month row is dated  *)
(* at or after window_end_exclusive; each booking allocates one tuple to   *)
(* each of its nights that is <= end and none to a later night; a night    *)
(* beyond the cutoff raises no error.                                      *)
(***************************************************************************)
\* the tuples allocated to the date d
RowsOf(d) == { k \in 1..Len(rows) : rows[k].date = d }

C5_CutoffClamping ==
    /\ \A k \in 1..Len(rows) : rows[k].date < WindowEndExclusive
    /\ \A k \in 1..Len(daily_full) : daily_full[k].date < WindowEndExclusive
    /\ \A k \in 1..Len(monthly) : monthly[k].month < WindowEndExclusive
    /\ \A k \in 1..Len(result) : result[k].month < WindowEndExclusive
    /\ (df_b # << >> /\ AfterMerge) =>
          \A d \in DatesIn(ClaimStart, Max({ df_b[k].odchod : k \in 1..Len(df_b) })) :
              /\ Cardinality(RowsOf(d)) = Cardinality({ j \in Covering(d) : d <= ClaimEnd })
              /\ \A k \in RowsOf(d) : \E j \in Covering(d) :
                    /\ rows[k].daily_rev = Rat(df_b[j].cena, df_b[j].pocet_noci)
                    /\ rows[k].daily_comm = Rat(df_b[j].provizia, df_b[j].pocet_noci)
    /\ pc # "ZeroDivisionError"
    /\ (pc = "ValueError" => ClaimWindow = {})

\* a returned run with a booking that starts before the cutoff and ends past it
C5_Witness ==
    /\ pc = "returned"
    /\ \E k \in 1..Len(df_b) :
          /\ df_b[k].prichod < WindowEndExclusive
          /\ df_b[k].odchod > WindowEndExclusive
          /\ \E j \in 1..Len(rows) : rows[j].date = df_b[k].prichod

(***************************************************************************)
(* C6: overlap. A date of the window that k >= 2 bookings occupy has one   *)
(* daily record, whose gross revenue and commission are the sums of the k  *)
(* per-night allocations price / nights and commission / nights, and whose *)
(* occupied flag is 1; the date counts once in its month's occupied_nights *)
(* and once in its available_nights.                                       *)
(***************************************************************************)
\* the sum, over the bookings that occupy d, of amount / pocet_noci
AllocatedOn(d, field) ==
    SumSeq([k \in 1..Len(df_b) |->
              IF k \in Covering(d) THEN Rat(df_b[k][field], df_b[k].pocet_noci) ELSE Zero])

\* the dates of the window in the month mo
WindowDatesOf(mo) == { d \in ClaimWindow : astype_month(d) = mo }

C6_Overlap ==
    (df_b # << >> /\ AfterMerge) =>
        \A d \in ClaimWindow : Cardinality(Covering(d)) >= 2 =>
            /\ Cardinality(DailyRowsOf(d)) = 1
            /\ \A k \in DailyRowsOf(d) :
                  /\ daily_full[k].revenue_gross = AllocatedOn(d, "cena")
                  /\ daily_full[k].commission = AllocatedOn(d, "provizia")
                  /\ daily_full[k].occupied_flag = Rat(1, 1)
            /\ pc = "returned" =>
                  \A k \in 1..Len(result) : result[k].month = astype_month(d) =>
                      /\ result[k].occupied_nights =
                           Rat(Cardinality({ x \in WindowDatesOf(result[k].month) : Covering(x) # {} }), 1)
                      /\ result[k].available_nights = Cardinality(WindowDatesOf(result[k].month))

\* a returned run with a date that two bookings of different nightly rates
\* occupy, in a month with a date that only one booking occupies
C6_Witness ==
    /\ pc = "returned"
    /\ \E d, x \in ClaimWindow :
          /\ Cardinality(Covering(d)) = 2
          /\ \E a, b \in Covering(d) :
                Rat(df_b[a].cena, df_b[a].pocet_noci) # Rat(df_b[b].cena, df_b[b].pocet_noci)
          /\ Cardinality(Covering(x)) = 1
          /\ astype_month(x) = astype_month(d)

(***************************************************************************)
(* C7: the monthly output has exactly one row for each month that holds a  *)
(* date of [start, end], also a month without any booking night, in        *)
(* ascending order of month; available_nights is the number of dates of    *)
(* [start, end] in the month, and these sum to end - start + 1.            *)
(***************************************************************************)
WindowMonths == { astype_month(d) : d \in ClaimWindow }

C7_MonthRows ==
    (df_b # << >> /\ pc = "returned") =>
        /\ \A mo \in WindowMonths :
              Cardinality({ k \in 1..Len(result) : result[k].month = mo }) = 1
        /\ \A k \in 1..Len(result) :
              /\ result[k].month \in WindowMonths
              /\ result[k].available_nights = Cardinality(WindowDatesOf(result[k].month))
        /\ \A j, k \in 1..Len(result) : j < k => result[j].month < result[k].month
        /\ ClaimWindow # {} =>
              SumSeq([k \in 1..Len(result) |-> Rat(result[k].available_nights, 1)])
                 = Rat((ClaimEnd - ClaimStart) \div Timedelta1Day + 1, 1)

\* a returned run of three months or more: the first month is entered after
\* its first day and a later month has no occupied night
C7_Witness ==
    /\ pc = "returned"
    /\ Len(result) >= 3
    /\ result[1].month < ClaimStart
    /\ \E k \in 1..Len(result) : result[k].occupied_nights = Zero
    /\ \E k \in 1..Len(result) :
          result[k].available_nights <
              DaysInMonth(result[k].year, result[k].month_num)

ScenarioBooking ==
    [prichod |-> to_datetime(Date(2024, 3, 1)), odchod |-> to_datetime(Date(2024, 3, 4)),
     pocet_noci |-> 3, cena |-> 300, provizia |-> 30]

ScenarioRow ==
    [month |-> to_datetime(Date(2024, 3, 1)), year |-> 2024, month_num |-> 3,
     available_nights |-> 3, occupied_nights |-> Rat(3, 1), occupancy_pct |-> Rat(100, 1),
     revenue_gross |-> Rat(300, 1), commission |-> Rat(30, 1), revenue_net |-> Rat(270, 1),
     revpar_gross |-> Rat(100, 1), revpar_net |-> Rat(90, 1)]

IsScenario == df_b = << ScenarioBooking >> /\ FILTER_END_EXCL = Date(2024, 4, 1)

C9_SingleBooking ==
    /\ (IsScenario /\ pc = "returned") => result = << ScenarioRow >>
    /\ (pc = "returned" /\ Len(df_b) = 1 /\ df_b[1].odchod <= WindowEndExclusive) =>
          /\ start_date = df_b[1].prichod
          /\ end_date = df_b[1].odchod - Timedelta1Day
          /\ SumSeq([k \in 1..Len(result) |-> Rat(result[k].available_nights, 1)])
                = Rat(Cardinality(Nights(df_b[1])), 1)
          /\ \A k \in 1..Len(result) :
                result[k].occupied_nights = Rat(result[k].available_nights, 1)

\* the scenario has returned
C9_Witness == IsScenario /\ pc = "returned" /\ Len(result) = 1

(***************************************************************************)
(* C10: every month row has available_nights >= 1, and its occupancy_pct,  *)
(* revpar_gross and revpar_net are finite numbers (no division by zero).   *)
(***************************************************************************)
C10_NoDivisionByZero ==
    \A k \in 1..Len(result) :
          /\ result[k].available_nights >= 1
          /\ IsFinite(result[k].occupancy_pct)
          /\ IsFinite(result[k].revpar_gross)
          /\ IsFinite(result[k].revpar_net)

\* a returned month without any occupied night
C10_Witness ==
    /\ pc = "returned"
    /\ \E k \in 1..Len(result) :
          /\ result[k].occupied_nights = Zero
          /\ result[k].revpar_gross = Zero
          /\ result[k].available_nights = DaysInMonth(result[k].year, result[k].month_num)

(***************************************************************************)
(* C11: when the window of the bookings is inverted (end < start, as when  *)
(* every booking arrives at or after the cutoff) the calendar is empty, no *)
(* booking night is allocated, no daily record and no month row is         *)
(* produced, and the call ends with an empty result or with an error.      *)
(***************************************************************************)
\* end < start, from the bookings and the cutoff
ClaimInverted == df_b # << >> /\ ClaimEnd < ClaimStart

C11_InvertedWindow ==
    (ClaimInverted /\ pc \in {"monthly", "ValueError", "returned"}) =>
        /\ calendar = << >>
        /\ rows = << >>
        /\ daily_agg = << >>
        /\ daily_full = << >>
        /\ pc = "returned" => (monthly = << >> /\ result = << >>)

\* a call that returned on bookings that all arrive at or after the cutoff,
\* each with nights to expand
C11_Witness ==
    /\ pc = "returned"
    /\ ClaimInverted
    /\ \A k \in 1..Len(df_b) :
          df_b[k].prichod >= WindowEndExclusive /\ Nights(df_b[k]) # {}

(***************************************************************************)
(* C12: for every non-empty booking set that passes the filters of         *)
(* load_bookings (departure > arrival, FILTER_START <= arrival <           *)
(* FILTER_END_EXCL) the window derived with the same FILTER_END_EXCL is    *)
(* not inverted: start <= end, the calendar has at least one date and the  *)
(* monthly output has at least one row.                                    *)
(***************************************************************************)
\* the bookings of df_b pass the filters of load_bookings
PassesLoadFilters ==
    \A k \in 1..Len(df_b) :
        /\ df_b[k].odchod > df_b[k].prichod
        /\ to_datetime(FILTER_START) <= df_b[k].prichod
        /\ df_b[k].prichod < WindowEndExclusive

C12_WindowNeverInverted ==
    /\ pc = "main" =>
          \A q \in query_bookings(db) :
              LET df == arrival_filter(to_datetime_cols(q), FILTER_START, FILTER_END_EXCL)
                  s == window_start(df)
                  e == window_end(df, FILTER_END_EXCL)
              IN  df # << >> => (s <= e /\ make_calendar(s, e) # << >>)
    /\ (df_b # << >> /\ PassesLoadFilters) =>
          /\ ClaimStart <= ClaimEnd
          /\ pc # "ValueError"
          /\ AfterMerge => (start_date <= end_date /\ calendar # << >>)
          /\ pc = "returned" => result # << >>

\* a call on loaded bookings that returned month rows for a window that
\* the cutoff ends before the last night of the bookings
C12_Witness ==
    /\ pc = "returned"
    /\ df_b # << >> /\ PassesLoadFilters
    /\ ClaimEnd = WindowEndExclusive - Timedelta1Day
    /\ \E k \in 1..Len(df_b) : df_b[k].odchod - Timedelta1Day > ClaimEnd
    /\ result # << >>

============================================================================
